---- MODULE Spec2Model ----
(***************************************************************************)
(* Snowflake -> SQLite / DuckDB table copy (snow_to_sqlite.py,             *)
(* snow_to_duckdb.py): the type mapper, the cell converter and the         *)
(* per-table loop of main(), for both target stores.                       *)
(***************************************************************************)
EXTENDS Integers, Sequences, FiniteSets, TLC

VARIABLES
    variant,    \* "sqlite" (snow_to_sqlite.py) or "duckdb" (snow_to_duckdb.py)
    op,         \* the function last called on its own: "none", "map", ...
    argType,    \* its remote type string
    argValue,   \* its cell value
    retType,    \* the local type it returned or declared
    retValue,   \* the cell it returned or the store gave back
    pc,         \* main(): the statement about to run
    i,          \* main(): index into table_names of the table being processed
    remote,     \* the Snowflake connection: "none", "open", "closed"
    closes,     \* how many times snowflake_connection.close() has run
    localOpen,  \* local-store connections opened and not closed
    schema,     \* main(): the rows of DESCRIBE TABLE, <<column name, type>>
    data,       \* main(): the rows of SELECT *
    converted,  \* main(): converted_data
    localDb,    \* the local database file: per table "absent", "empty", "loaded"
    stage,      \* per table, the last step of main() that completed for it
    attempted,  \* the tables whose loop iteration has begun
    raisedIn    \* the step whose exception left main(), or "none"

vars == <<variant, op, argType, argValue, retType, retValue, pc, i, remote,
          closes, localOpen, schema, data, converted, localDb, stage,
          attempted, raisedIn>>

fnVars == <<op, argType, argValue, retType, retValue>>
mainVars == <<pc, i, remote, closes, localOpen, localDb, stage, attempted,
              raisedIn>>

(***************************************************************************)
(* Strings.  A type string is the sequence of its characters, so that      *)
(* str.upper() and the `in` substring test are computed, not assumed.      *)
(***************************************************************************)
(* Snowflake type strings of the samples, one character per element. *)
T_VARCHAR_100 == <<"V", "A", "R", "C", "H", "A", "R", "(", "1", "0", "0", ")">>
T_TEXT == <<"T", "E", "X", "T">>
T_varchar == <<"v", "a", "r", "c", "h", "a", "r", "(", "1", "6", ")">>
T_NUMBER_10_2 == <<"N", "U", "M", "B", "E", "R", "(", "1", "0", ",", "2", ")">>
T_NUMBER_10_0 == <<"N", "U", "M", "B", "E", "R", "(", "1", "0", ",", "0", ")">>
T_NUMBER_38_0 == <<"N", "U", "M", "B", "E", "R", "(", "3", "8", ",", "0", ")">>
T_NUMBER == <<"N", "U", "M", "B", "E", "R">>
T_number_38_0 == <<"n", "u", "m", "b", "e", "r", "(", "3", "8", ",", "0", ")">>
T_TIMESTAMP_NTZ == <<"T", "I", "M", "E", "S", "T", "A", "M", "P", "_", "N", "T", "Z">>
T_TIMESTAMP_NTZ_9 == <<"T", "I", "M", "E", "S", "T", "A", "M", "P", "_", "N", "T", "Z", "(", "9", ")">>
T_TIMESTAMP == <<"T", "I", "M", "E", "S", "T", "A", "M", "P">>
T_TIMESTAMP_LTZ_9 == <<"T", "I", "M", "E", "S", "T", "A", "M", "P", "_", "L", "T", "Z", "(", "9", ")">>
T_DATE == <<"D", "A", "T", "E">>
T_BOOLEAN == <<"B", "O", "O", "L", "E", "A", "N">>
T_FLOAT == <<"F", "L", "O", "A", "T">>
T_VARIANT == <<"V", "A", "R", "I", "A", "N", "T">>
T_BINARY == <<"B", "I", "N", "A", "R", "Y">>
T_TIME_9 == <<"T", "I", "M", "E", "(", "9", ")">>

(* The substrings the mapper and the converter look for. *)
kwVARCHAR == <<"V", "A", "R", "C", "H", "A", "R">>
kwTEXT == <<"T", "E", "X", "T">>
kwNUMBER == <<"N", "U", "M", "B", "E", "R">>
kwTIMESTAMP_NTZ == <<"T", "I", "M", "E", "S", "T", "A", "M", "P", "_", "N", "T", "Z">>
kwTIMESTAMP == <<"T", "I", "M", "E", "S", "T", "A", "M", "P">>
kwDATE == <<"D", "A", "T", "E">>
kwBOOLEAN == <<"B", "O", "O", "L", "E", "A", "N">>
kwNUMBER_38_0 == <<"N", "U", "M", "B", "E", "R", "(", "3", "8", ",", "0", ")">>
kwComma == <<",">>

LowerLetters == <<"a", "b", "c", "d", "e", "f", "g", "h", "i", "j", "k", "l", "m", "n", "o", "p", "q", "r", "s", "t", "u", "v", "w", "x", "y", "z">>
UpperLetters == <<"A", "B", "C", "D", "E", "F", "G", "H", "I", "J", "K", "L", "M", "N", "O", "P", "Q", "R", "S", "T", "U", "V", "W", "X", "Y", "Z">>

UpperChar(c) ==
    IF \E n \in DOMAIN LowerLetters : LowerLetters[n] = c
    THEN UpperLetters[CHOOSE n \in DOMAIN LowerLetters : LowerLetters[n] = c]
    ELSE c

\* str.upper()
Upper(s) == [n \in DOMAIN s |-> UpperChar(s[n])]

\* `sub in s` on str
Contains(s, sub) ==
    \E n \in 1..(Len(s) - Len(sub) + 1) : SubSeq(s, n, n + Len(sub) - 1) = sub

(***************************************************************************)
(* The schema mappers.                                                     *)
(***************************************************************************)
\* The SQLite mapper without its final return: the function falls off its
\* end and the column is declared None.
map_sqlite_type_no_default(snowflake_type) ==
    LET t == Upper(snowflake_type) IN
    IF Contains(t, kwVARCHAR) \/ Contains(t, kwTEXT) THEN "TEXT"
    ELSE IF Contains(t, kwNUMBER)
         THEN (IF Contains(t, kwComma) THEN "REAL" ELSE "INTEGER")
    ELSE IF Contains(t, kwTIMESTAMP_NTZ) THEN "datetime"
    ELSE IF Contains(t, kwTIMESTAMP) THEN "datetime"
    ELSE IF Contains(t, kwDATE) THEN "date"
    ELSE IF Contains(t, kwBOOLEAN) THEN "INTEGER"
    ELSE "None"

map_snowflake_to_sqlite_type(snowflake_type) ==
    LET t == Upper(snowflake_type) IN
    IF Contains(t, kwVARCHAR) \/ Contains(t, kwTEXT) THEN "TEXT"
    ELSE IF Contains(t, kwNUMBER)
         THEN (IF Contains(t, kwComma) THEN "REAL" ELSE "INTEGER")
    ELSE IF Contains(t, kwTIMESTAMP_NTZ) THEN "datetime"
    ELSE IF Contains(t, kwTIMESTAMP) THEN "datetime"
    ELSE IF Contains(t, kwDATE) THEN "date"
    ELSE IF Contains(t, kwBOOLEAN) THEN "INTEGER"
    ELSE "TEXT"

map_snowflake_to_duckdb_type(snowflake_type) ==
    LET t == Upper(snowflake_type) IN
    IF Contains(t, kwVARCHAR) \/ Contains(t, kwTEXT) THEN "VARCHAR"
    ELSE IF Contains(t, kwNUMBER)
         THEN (IF Contains(t, kwComma) THEN "DOUBLE" ELSE "BIGINT")
    ELSE IF Contains(t, kwTIMESTAMP_NTZ) THEN "TIMESTAMP"
    ELSE IF Contains(t, kwTIMESTAMP) THEN "TIMESTAMP"
    ELSE IF Contains(t, kwDATE) THEN "DATE"
    ELSE IF Contains(t, kwBOOLEAN) THEN "BOOLEAN"
    ELSE "VARCHAR"

\* The mapper of the variant's script.
MapType(v, snowflake_type) ==
    IF v = "sqlite" THEN map_snowflake_to_sqlite_type(snowflake_type)
    ELSE map_snowflake_to_duckdb_type(snowflake_type)

(***************************************************************************)
(* Whole numbers of any size, as their decimal digits (most significant    *)
(* first, no leading zero), and the IEEE double nearest to one.            *)
(***************************************************************************)
\* Significand bits of a Python float / an SQLite REAL.
DoubleBits == 53

\* A digit sequence without its one leading zero, if it has one.
StripZero(q) == SubSeq(q, IF Len(q) > 1 /\ q[1] = 0 THEN 2 ELSE 1, Len(q))

\* d div 2.  The remainder carried into position n is d[n-1] mod 2.
Halve(d) ==
    StripZero([n \in DOMAIN d |->
                (((IF n = 1 THEN 0 ELSE d[n - 1] % 2) * 10) + d[n]) \div 2])

\* The last eight elements of a sequence, padded on the left with zeros.
Last8(q) == [n \in 1..8 |-> IF n + Len(q) - 8 >= 1 THEN q[n + Len(q) - 8] ELSE 0]

\* The number written by eight decimal digits.
DecimalValue(p) ==
    p[1] * 10000000 + p[2] * 1000000 + p[3] * 100000 + p[4] * 10000
    + p[5] * 1000 + p[6] * 100 + p[7] * 10 + p[8]

\* The eight bits of n < 256.
ByteBits(n) == [k \in 1..8 |-> (n \div (2 ^ (8 - k))) % 2]

\* A bit sequence without its leading zeros.
StripBits(b) ==
    IF \A n \in DOMAIN b : b[n] = 0 THEN <<>>
    ELSE SubSeq(b, CHOOSE n \in DOMAIN b :
                      b[n] = 1 /\ \A k \in 1..(n - 1) : b[k] = 0, Len(b))

\* d div 256, one bit at a time.
Div256(d) == Halve(Halve(Halve(Halve(Halve(Halve(Halve(Halve(d))))))))

\* The binary digits of d, most significant first, eight at a time:
\* d mod 256 is decided by the last eight decimal digits.
JoinBits(high, low) == IF high = <<>> THEN StripBits(low) ELSE high \o low

RECURSIVE ToBits(_)
ToBits(d) ==
    IF Len(d) <= 2 THEN StripBits(ByteBits(DecimalValue(Last8(d))))
    ELSE JoinBits(ToBits(Div256(d)), ByteBits(DecimalValue(Last8(d)) % 256))

\* b + 1 in binary.
IncBits(b) ==
    IF \A n \in DOMAIN b : b[n] = 1 THEN <<1>> \o [n \in DOMAIN b |-> 0]
    ELSE [n \in DOMAIN b |->
            IF \A k \in (n + 1)..Len(b) : b[k] = 1 THEN 1 - b[n] ELSE b[n]]

\* Round to nearest, ties to even, keeping DoubleBits significant bits.
RoundBits(b) ==
    IF Len(b) <= DoubleBits THEN b
    ELSE LET m      == SubSeq(b, 1, DoubleBits)
             rest   == SubSeq(b, DoubleBits + 1, Len(b))
             sticky == \E n \in 2..Len(rest) : rest[n] = 1
             up     == rest[1] = 1 /\ (sticky \/ m[DoubleBits] = 1)
         IN (IF up THEN IncBits(m) ELSE m) \o [n \in DOMAIN rest |-> 0]

\* The binary digits of float(n) for the whole number with decimal digits d.
DoubleOf(d) == RoundBits(ToBits(d))

\* a <= b on digit sequences
DigitsLeq(a, b) ==
    \/ Len(a) < Len(b)
    \/ /\ Len(a) = Len(b)
       /\ \/ a = b
          \/ \E n \in DOMAIN a :
                /\ a[n] < b[n]
                /\ \A k \in 1..(n - 1) : a[k] = b[k]

(***************************************************************************)
(* Cell values.  k is the Python type; d and e hold a number (decimal       *)
(* digits d, e of them after the decimal point), a bool (<<0>> or <<1>>)   *)
(* or the fields of a date; a float that is a whole number holds its       *)
(* binary digits (f = "binary"); a str is a literal s (f = "literal") or   *)
(* the printed form of a number or date (f = "digits", "datetime", ...).   *)
(***************************************************************************)
Cell(k, f, d, e, s) == [k |-> k, f |-> f, d |-> d, e |-> e, s |-> s]
None        == Cell("None", "", <<>>, 0, "")
PyBool(b)   == Cell("bool", "", <<IF b THEN 1 ELSE 0>>, 0, "")
PyInt(d)    == Cell("int", "", d, 0, "")
Decimal(d, e) == Cell("Decimal", "", d, e, "")
FloatBits(b) == Cell("float", "binary", b, 0, "")
FloatDec(d, e) == Cell("float", "decimal", d, e, "")
PyStr(s)    == Cell("str", "literal", <<>>, 0, s)
DateTime(d) == Cell("datetime", "", d, 0, "")
Date(d)     == Cell("date", "", d, 0, "")
\* what the except clause of convert_value catches
ValueError  == Cell("ValueError", "", <<>>, 0, "")

\* Python truthiness of a cell (`if value`, bool(value)).
Truthy(v) ==
    CASE v.k = "None" -> FALSE
      [] v.k \in {"bool", "int", "Decimal", "float"} -> \E n \in DOMAIN v.d : v.d[n] # 0
      [] v.k = "str" -> ~(v.f = "literal" /\ v.s = "")
      [] OTHER -> TRUE

\* str(value)
StrOf(v) ==
    CASE v.k = "str" -> v
      [] v.k \in {"int", "Decimal"} -> Cell("str", "digits", v.d, v.e, "")
      [] v.k = "float" -> Cell("str", "float", v.d, v.e, "")
      [] v.k = "bool" -> PyStr(IF Truthy(v) THEN "True" ELSE "False")
      [] v.k \in {"datetime", "date"} -> Cell("str", v.k, v.d, 0, "")
      [] OTHER -> PyStr("None")

\* The literal strings of the samples that datetime.fromisoformat accepts.
IsoLiterals ==
    [s \in {"2024-01-15T00:00:00", "2024-02-29"} |->
        IF s = "2024-01-15T00:00:00" THEN <<2024, 1, 15, 0, 0, 0>>
        ELSE <<2024, 2, 29, 0, 0, 0>>]

\* datetime.fromisoformat(text): the datetime, or ValueError.  The printed form
\* of a date or datetime parses back; a run of digits does not (none of the
\* samples has the eight digits of a basic-format date).
FromIsoFormat(t) ==
    CASE t.f = "literal" /\ t.s \in DOMAIN IsoLiterals -> DateTime(IsoLiterals[t.s])
      [] t.f = "datetime" -> DateTime(t.d)
      [] t.f = "date" -> DateTime(t.d \o <<0, 0, 0>>)
      [] OTHER -> ValueError

\* float(value) of a Decimal.  A whole number is rounded to the nearest
\* double; a sample with a fraction has at most 15 significant digits, which
\* a double keeps.
FloatOf(v) == IF v.e = 0 THEN FloatBits(DoubleOf(v.d)) ELSE FloatDec(v.d, v.e)

\* int(value) of a Decimal: truncation toward zero.
IntOf(v) ==
    IF Len(v.d) > v.e THEN PyInt(SubSeq(v.d, 1, Len(v.d) - v.e)) ELSE PyInt(<<0>>)

(***************************************************************************)
(* convert_value of each script.                                           *)
(***************************************************************************)
\* The TIMESTAMP_NTZ branch, the same in both scripts.
ConvertTimestampNtz(value) ==
    IF value.k \in {"datetime", "date"} THEN value
    ELSE LET parsed == FromIsoFormat(StrOf(value))
         IN IF parsed = ValueError THEN None ELSE parsed

\* convert_value of the SQLite script without its `value is None` test.
convert_value_sqlite_no_none_test(value, snowflake_type) ==
    LET t == Upper(snowflake_type) IN
    IF Contains(t, kwBOOLEAN)
         THEN (IF Truthy(value) THEN PyInt(<<1>>) ELSE PyInt(<<0>>))
    ELSE IF Contains(t, kwNUMBER_38_0) THEN StrOf(value)
    ELSE IF Contains(t, kwNUMBER) /\ value.k = "Decimal"
         THEN (IF Contains(t, kwComma) THEN FloatOf(value) ELSE IntOf(value))
    ELSE IF Contains(t, kwTIMESTAMP_NTZ) THEN ConvertTimestampNtz(value)
    ELSE value

convert_value_sqlite(value, snowflake_type) ==
    LET t == Upper(snowflake_type) IN
    IF value = None THEN None
    ELSE IF Contains(t, kwBOOLEAN)
         THEN (IF Truthy(value) THEN PyInt(<<1>>) ELSE PyInt(<<0>>))
    ELSE IF Contains(t, kwNUMBER_38_0) THEN StrOf(value)
    ELSE IF Contains(t, kwNUMBER) /\ value.k = "Decimal"
         THEN (IF Contains(t, kwComma) THEN FloatOf(value) ELSE IntOf(value))
    ELSE IF Contains(t, kwTIMESTAMP_NTZ) THEN ConvertTimestampNtz(value)
    ELSE value

convert_value_duckdb(value, snowflake_type) ==
    LET t == Upper(snowflake_type) IN
    IF value = None THEN None
    ELSE IF Contains(t, kwBOOLEAN) THEN PyBool(Truthy(value))
    ELSE IF Contains(t, kwNUMBER) /\ value.k = "Decimal"
         THEN (IF Contains(t, kwComma) THEN FloatOf(value) ELSE IntOf(value))
    ELSE IF Contains(t, kwTIMESTAMP_NTZ) THEN ConvertTimestampNtz(value)
    ELSE value

convert_value(v, value, snowflake_type) ==
    IF v = "sqlite" THEN convert_value_sqlite(value, snowflake_type)
    ELSE convert_value_duckdb(value, snowflake_type)

\* zip(row, schema): pairs up to the shorter of the two.
Min(a, b) == IF a <= b THEN a ELSE b

\* convert_data_for_sqlite / convert_data_for_duckdb
convert_data(v, rows, sch) ==
    [r \in DOMAIN rows |->
        [c \in 1..Min(Len(rows[r]), Len(sch)) |->
            convert_value(v, rows[r][c], sch[c][2])]]

(***************************************************************************)
(* What an SQLite column gives back for a value bound to an INSERT.        *)
(***************************************************************************)
\* The largest value of an SQLite INTEGER, 2^63 - 1.
MaxInt64 == <<9, 2, 2, 3, 3, 7, 2, 0, 3, 6, 8, 5, 4, 7, 7, 5, 8, 0, 7>>

\* Column affinity of the declared types the SQLite mapper produces.
Affinity(decl) ==
    CASE decl = "TEXT" -> "TEXT"
      [] decl = "INTEGER" -> "INTEGER"
      [] decl = "REAL" -> "REAL"
      [] OTHER -> "NUMERIC"

OverflowError == Cell("OverflowError", "", <<>>, 0, "")

\* The value SELECT returns after `value` was inserted into a column declared
\* `decl`, for None, whole numbers and their printed forms.
SqliteReadBack(decl, value) ==
    LET a == Affinity(decl) IN
    CASE value = None -> None
      [] value.k = "int" /\ ~DigitsLeq(value.d, MaxInt64) -> OverflowError
      [] value.k = "int" /\ DigitsLeq(value.d, MaxInt64) ->
            (CASE a = "TEXT" -> StrOf(value)
               [] a = "REAL" -> FloatBits(DoubleOf(value.d))
               [] OTHER -> value)
      [] value.k = "float" /\ a = "REAL" -> value
      [] value.k = "str" /\ value.f = "digits" /\ value.e = 0 ->
            (CASE a = "TEXT" -> value
               [] a = "REAL" -> FloatBits(DoubleOf(value.d))
               [] OTHER -> IF DigitsLeq(value.d, MaxInt64)
                           THEN PyInt(value.d)
                           ELSE FloatBits(DoubleOf(value.d)))

\* Whether the cell read back is the whole number with decimal digits d.
IsNumber(back, d) ==
    CASE back.k = "int" -> back.d = d
      [] back.k = "str" /\ back.f = "digits" -> back.d = d /\ back.e = 0
      [] back.k = "float" /\ back.f = "binary" -> back.d = ToBits(d)
      [] OTHER -> FALSE

(***************************************************************************)
(* Samples and bounds.                                                     *)
(***************************************************************************)
MaxTypeLen == 4
MaxCols == 2
MaxRows == 2

TypeAlphabet == {"T", "E", "X", "x", "D", "A"}

\* Every string over TypeAlphabet of at most MaxTypeLen characters.
ShortStrings == UNION {[1..n -> TypeAlphabet] : n \in 0..MaxTypeLen}

NamedTypes ==
    {T_VARCHAR_100, T_TEXT, T_varchar, T_NUMBER_10_2, T_NUMBER_10_0,
     T_NUMBER_38_0, T_NUMBER, T_number_38_0, T_TIMESTAMP_NTZ,
     T_TIMESTAMP_NTZ_9, T_TIMESTAMP, T_TIMESTAMP_LTZ_9, T_DATE, T_BOOLEAN,
     T_FLOAT, T_VARIANT, T_BINARY, T_TIME_9}

TypeStrings == NamedTypes \cup ShortStrings

\* 99999999999999999999999999999999999999, the largest NUMBER(38,0)
Max38 == [n \in 1..38 |-> 9]

WholeNumbers ==
    {<<0>>, <<1>>, <<4, 2>>, <<9, 0, 0, 7, 1, 9, 9, 2, 5, 4, 7, 4, 0, 9, 9, 3>>,
     MaxInt64, Max38}

ValueSamples ==
    {None, PyBool(TRUE), PyBool(FALSE),
     PyStr("2024-01-15T00:00:00"), PyStr("2024-02-29"), PyStr("not-a-date"),
     PyStr("2024-13-45"), PyStr(""), PyStr("Ada"),
     DateTime(<<2024, 1, 15, 0, 0, 0>>), Date(<<2024, 2, 29>>),
     Decimal(<<1, 2, 5, 0>>, 2)}
    \cup {PyInt(d) : d \in WholeNumbers}
    \cup {Decimal(d, 0) : d \in WholeNumbers}

Variants == {"sqlite", "duckdb"}

\* table_names
table_names == <<"customers", "items", "orders", "products", "stores", "supplies">>
Tables == DOMAIN table_names

\* Column types and cells of the tables the loop of main() is run on.
LoopTypes == {T_NUMBER_10_0, T_VARCHAR_100, T_TIMESTAMP_NTZ}
ColumnNames == <<"ID", "NAME", "SIGNUP", "C4", "C5", "C6">>

CellsOf(t) ==
    CASE t = T_NUMBER_10_0 -> {None, Decimal(<<4, 2>>, 0)}
      [] t = T_VARCHAR_100 -> {None, PyStr("Ada")}
      [] OTHER -> {None, PyStr("2024-01-15T00:00:00")}

\* The results DESCRIBE TABLE can give: one <<name, type>> per column.
Schemas ==
    UNION {{[c \in 1..n |-> <<ColumnNames[c], ts[c]>>] : ts \in [1..n -> LoopTypes]}
           : n \in 1..MaxCols}

\* The rows of one table with schema sch: each cell a value of its column.
RowsOf(sch) == {r \in [DOMAIN sch -> UNION {CellsOf(t) : t \in LoopTypes}] :
                   \A c \in DOMAIN sch : r[c] \in CellsOf(sch[c][2])}

\* The results SELECT * can give for a table with schema sch.
DataOf(sch) == UNION {[1..n -> RowsOf(sch)] : n \in 0..MaxRows}

(***************************************************************************)
(* main(): the loop over table_names inside try/finally.                   *)
(***************************************************************************)
Stages == <<"PENDING", "SCHEMA_FETCHED", "TABLE_CREATED", "DATA_FETCHED",
            "DATA_CONVERTED", "DATA_LOADED">>

StageNo(s) == CHOOSE n \in DOMAIN Stages : Stages[n] = s

Init ==
    /\ variant \in Variants
    /\ op = "none"
    /\ argType = <<>>
    /\ argValue = None
    /\ retType = ""
    /\ retValue = None
    /\ pc = "connect"
    /\ i = 0
    /\ remote = "none"
    /\ closes = 0
    /\ localOpen = 0
    /\ schema = <<>>
    /\ data = <<>>
    /\ converted = <<>>
    /\ localDb = [t \in Tables |-> "absent"]
    /\ stage = [t \in Tables |-> "PENDING"]
    /\ attempted = {}
    /\ raisedIn = "none"

\* Raise without the finally clause.
RaiseWithoutFinally(step) ==
    /\ pc' = "raised"
    /\ raisedIn' = step
    /\ UNCHANGED <<remote, closes>>

\* An exception leaves the try block: the finally clause closes the Snowflake
\* connection and the exception leaves main().
Raise(step) ==
    /\ pc' = "raised"
    /\ raisedIn' = step
    /\ remote' = "closed"
    /\ closes' = closes + 1

\* The for loop is exhausted: the finally clause runs and main() returns.
Return ==
    /\ pc' = "done"
    /\ remote' = "closed"
    /\ closes' = closes + 1
    /\ UNCHANGED raisedIn

\* snowflake_connection_helper() returns the connection.
Connect ==
    /\ pc = "connect"
    /\ remote' = "open"
    /\ i' = 1
    /\ attempted' = {1}
    /\ pc' = "fetch_schema"
    /\ UNCHANGED <<variant, fnVars, closes, localOpen, schema, data, converted,
                   localDb, stage, raisedIn>>

\* snowflake_connection_helper() raises: main() is left before the try block.
ConnectFails ==
    /\ pc = "connect"
    /\ pc' = "raised"
    /\ raisedIn' = "connect"
    /\ UNCHANGED <<variant, fnVars, i, remote, closes, localOpen, schema, data,
                   converted, localDb, stage, attempted>>

\* fetch_table_schema returns the rows of DESCRIBE TABLE.
FetchSchema ==
    /\ pc = "fetch_schema"
    /\ \E sch \in Schemas : schema' = sch
    /\ stage' = [stage EXCEPT ![i] = "SCHEMA_FETCHED"]
    /\ pc' = "create_table"
    /\ UNCHANGED <<variant, fnVars, i, remote, closes, localOpen, data,
                   converted, localDb, attempted, raisedIn>>

\* A failed DESCRIBE TABLE that is caught inside the loop: the failure is
\* noted and the loop goes on to the next table.
FetchSchemaFailsAndContinues ==
    /\ pc = "fetch_schema"
    /\ raisedIn' = "fetch_schema"
    /\ IF i < Len(table_names)
       THEN /\ i' = i + 1
            /\ attempted' = attempted \cup {i + 1}
            /\ pc' = "fetch_schema"
            /\ UNCHANGED <<remote, closes>>
       ELSE /\ pc' = "done"
            /\ remote' = "closed"
            /\ closes' = closes + 1
            /\ UNCHANGED <<i, attempted>>
    /\ UNCHANGED <<variant, fnVars, localOpen, schema, data, converted,
                   localDb, stage>>

\* cursor.execute("DESCRIBE TABLE ...") raises.
FetchSchemaFails ==
    /\ pc = "fetch_schema"
    /\ Raise("fetch_schema")
    /\ UNCHANGED <<variant, fnVars, i, localOpen, schema, data, converted,
                   localDb, stage, attempted>>

\* The create step followed by the convert step, the data fetch left out.
CreateTableThenConvert ==
    /\ pc = "create_table"
    /\ localDb' = [localDb EXCEPT ![i] = IF @ = "absent" THEN "created" ELSE @]
    /\ stage' = [stage EXCEPT ![i] = "TABLE_CREATED"]
    /\ pc' = "convert"
    /\ UNCHANGED <<variant, fnVars, i, remote, closes, localOpen, schema, data,
                   converted, attempted, raisedIn>>

\* create_table_in_sqlite / create_table_in_duckdb: connect, CREATE TABLE IF
\* NOT EXISTS with the mapped column types, commit, close.
CreateTable ==
    /\ pc = "create_table"
    /\ localDb' = [localDb EXCEPT ![i] = IF @ = "absent" THEN "created" ELSE @]
    /\ stage' = [stage EXCEPT ![i] = "TABLE_CREATED"]
    /\ pc' = "fetch_data"
    /\ UNCHANGED <<variant, fnVars, i, remote, closes, localOpen, schema, data,
                   converted, attempted, raisedIn>>

\* connect() raises, or the CREATE TABLE statement does: then commit() and
\* close() are not reached and the local connection stays open.
CreateTableFails ==
    /\ pc = "create_table"
    /\ \E leaked \in {0, 1} : localOpen' = localOpen + leaked
    /\ Raise("create_table")
    /\ UNCHANGED <<variant, fnVars, i, schema, data, converted, localDb, stage,
                   attempted>>

\* fetch_data_from_snowflake returns the rows of SELECT *.
FetchData ==
    /\ pc = "fetch_data"
    /\ \E rows \in DataOf(schema) : data' = rows
    /\ stage' = [stage EXCEPT ![i] = "DATA_FETCHED"]
    /\ pc' = "convert"
    /\ UNCHANGED <<variant, fnVars, i, remote, closes, localOpen, schema,
                   converted, localDb, attempted, raisedIn>>

\* cursor.execute("SELECT * ...") raises.
FetchDataFails ==
    /\ pc = "fetch_data"
    /\ Raise("fetch_data")
    /\ UNCHANGED <<variant, fnVars, i, localOpen, schema, data, converted,
                   localDb, stage, attempted>>

\* convert_data_for_sqlite / convert_data_for_duckdb
ConvertData ==
    /\ pc = "convert"
    /\ converted' = convert_data(variant, data, schema)
    /\ stage' = [stage EXCEPT ![i] = "DATA_CONVERTED"]
    /\ pc' = "write"
    /\ UNCHANGED <<variant, fnVars, i, remote, closes, localOpen, schema, data,
                   localDb, attempted, raisedIn>>

\* Building converted_data raises (MemoryError on a large table, or int()
\* of a Decimal that is not a finite number).
ConvertDataFails ==
    /\ pc = "convert"
    /\ Raise("convert")
    /\ UNCHANGED <<variant, fnVars, i, localOpen, schema, data, converted,
                   localDb, stage, attempted>>

\* write_data_to_sqlite guarded against an empty list.
WriteNeverIndexError == FALSE

\* write_data_to_sqlite indexes data[0] after connecting: IndexError on no
\* rows.  write_data_to_duckdb builds a DataFrame and has no such step.
WriteIndexError == variant = "sqlite" /\ converted = <<>>

\* The end of one iteration: the next table, or the end of the loop.  The
\* loop's locals are dead until the next iteration assigns them.
NextTable ==
    /\ schema' = <<>>
    /\ data' = <<>>
    /\ converted' = <<>>
    /\ IF i < Len(table_names)
       THEN /\ i' = i + 1
            /\ attempted' = attempted \cup {i + 1}
            /\ pc' = "fetch_schema"
            /\ UNCHANGED <<remote, closes, raisedIn>>
       ELSE /\ Return
            /\ UNCHANGED <<i, attempted>>

\* write_data_to_sqlite / write_data_to_duckdb: connect, INSERT every row,
\* commit, close.
WriteData ==
    /\ pc = "write"
    /\ ~WriteIndexError
    /\ localDb' = [localDb EXCEPT ![i] = "inserted"]
    /\ stage' = [stage EXCEPT ![i] = "DATA_LOADED"]
    /\ NextTable
    /\ UNCHANGED <<variant, fnVars, localOpen>>

\* connect() raises, or data[0] or the INSERT does: then commit() and close()
\* are not reached and the local connection stays open.  Nothing is inserted.
WriteDataFails ==
    /\ pc = "write"
    /\ \E leaked \in {0, 1} : localOpen' = localOpen + leaked
    /\ Raise("write")
    /\ UNCHANGED <<variant, fnVars, i, schema, data, converted, localDb, stage,
                   attempted>>

Next ==
    \/ Connect
    \/ ConnectFails
    \/ FetchSchema
    \/ FetchSchemaFails
    \/ CreateTable
    \/ CreateTableFails
    \/ FetchData
    \/ FetchDataFails
    \/ ConvertData
    \/ ConvertDataFails
    \/ WriteData
    \/ WriteDataFails

Spec == Init /\ [][Next]_vars

(***************************************************************************)
(* The mapper, the converter and the store, each called on its own.        *)
(***************************************************************************)
InitFn == Init

\* map_snowflake_to_*_type(argType)
MapCall ==
    /\ op = "none"
    /\ \E t \in TypeStrings :
          /\ argType' = t
          /\ retType' = MapType(variant, t)
    /\ op' = "map"
    /\ argValue' = None
    /\ retValue' = None
    /\ UNCHANGED <<variant, mainVars, schema, data, converted>>

\* convert_value(argValue, argType)
ConvertValueCall ==
    /\ op = "none"
    /\ \E t \in NamedTypes, v \in ValueSamples :
          /\ argType' = t
          /\ argValue' = v
          /\ retValue' = convert_value(variant, v, t)
    /\ op' = "convert_value"
    /\ retType' = ""
    /\ UNCHANGED <<variant, mainVars, schema, data, converted>>

\* convert_data_for_*(data, schema)
ConvertDataCall ==
    /\ op = "none"
    /\ \E sch \in Schemas :
          /\ schema' = sch
          /\ \E rows \in DataOf(sch) :
                /\ data' = rows
                /\ converted' = convert_data(variant, rows, sch)
    /\ op' = "convert_data"
    /\ argType' = <<>>
    /\ argValue' = None
    /\ retType' = ""
    /\ retValue' = None
    /\ UNCHANGED <<variant, mainVars>>

\* One cell of a NUMBER column through the SQLite script: the column is
\* declared with the mapped type, the cell is converted, inserted and read back.
StoreCall ==
    /\ op = "none"
    /\ variant = "sqlite"
    /\ \E t \in {T_NUMBER_38_0, T_number_38_0, T_NUMBER_10_0, T_NUMBER},
          v \in {PyInt(d) : d \in WholeNumbers} \cup {Decimal(d, 0) : d \in WholeNumbers} :
          /\ argType' = t
          /\ argValue' = v
          /\ retType' = map_snowflake_to_sqlite_type(t)
          /\ retValue' = SqliteReadBack(map_snowflake_to_sqlite_type(t),
                                        convert_value_sqlite(v, t))
    /\ op' = "store"
    /\ UNCHANGED <<variant, mainVars, schema, data, converted>>

NextFn ==
    \/ MapCall
    \/ ConvertValueCall
    \/ ConvertDataCall
    \/ StoreCall

SpecFn == InitFn /\ [][NextFn]_vars

(***************************************************************************)
(* Properties of main().                                                   *)
(***************************************************************************)
Ended == pc \in {"done", "raised"}

C2_StepsInOrder ==
    [][/\ \A t \in Tables :
            stage'[t] # stage[t] =>
                /\ t = i
                /\ StageNo(stage'[t]) = StageNo(stage[t]) + 1
       /\ \A t \in Tables :
            stage'[t] # "PENDING" =>
                \A u \in Tables : u < t => stage'[u] = "DATA_LOADED"]_vars

C2_Witness ==
    /\ pc = "convert"
    /\ i = 2
    /\ stage[1] = "DATA_LOADED"
    /\ stage[2] = "DATA_FETCHED"
    /\ stage[3] = "PENDING"

\* C3: once acquired, the Snowflake connection is open while the loop runs
\* and closed exactly once when main() ends, whether the loop finished or a
\* step of some table raised.
C3_RemoteClosedExactlyOnce ==
    /\ closes <= 1
    /\ (Ended /\ raisedIn # "connect") => (remote = "closed" /\ closes = 1)
    /\ (~Ended /\ pc # "connect") => (remote = "open" /\ closes = 0)

C3_Witness ==
    /\ pc = "raised"
    /\ raisedIn = "fetch_data"
    /\ i = 2
    /\ remote = "closed"
    /\ closes = 1

\* C4: no failed create or load step leaves a local connection open.
C4_LocalConnectionsClosed == localOpen = 0

\* C10: in the SQLite script a table with zero rows never reaches
\* DATA_LOADED.  The write step raises before any INSERT, the local table
\* stays as the create step left it, the Snowflake connection is closed, and
\* main() ends there: no later table is attempted and nothing follows.
C10_ZeroRowsEndSqliteJob ==
    [][/\ pc # "raised"
       /\ (variant = "sqlite" /\ pc = "write" /\ data = <<>>) =>
            /\ pc' = "raised"
            /\ raisedIn' = "write"
            /\ stage' = stage
            /\ stage[i] = "DATA_CONVERTED"
            /\ localDb' = localDb
            /\ localDb[i] = "created"
            /\ attempted' = 1..i
            /\ remote' = "closed"
            /\ closes' = closes + 1]_vars

C10_Witness ==
    /\ variant = "sqlite"
    /\ pc = "raised"
    /\ raisedIn = "write"
    /\ data = <<>>
    /\ i = 2
    /\ localDb[2] = "created"
    /\ stage[2] = "DATA_CONVERTED"
    /\ 3 \notin attempted
    /\ remote = "closed"

(***************************************************************************)
(* Properties of the mapper, the converter and the store.                  *)
(***************************************************************************)
LocalTypes(v) ==
    IF v = "sqlite" THEN {"TEXT", "INTEGER", "REAL", "datetime", "date"}
    ELSE {"VARCHAR", "BIGINT", "DOUBLE", "TIMESTAMP", "DATE", "BOOLEAN"}

TextType(v) == IF v = "sqlite" THEN "TEXT" ELSE "VARCHAR"

\* The upper-cased type string holds none of the recognised substrings.
Unrecognised(t) ==
    \A kw \in {kwVARCHAR, kwTEXT, kwNUMBER, kwTIMESTAMP, kwDATE, kwBOOLEAN} :
        ~Contains(Upper(t), kw)

\* C5: for every type string the mapper returns one local type of its store,
\* and the text type when the string holds none of VARCHAR, TEXT, NUMBER,
\* TIMESTAMP, DATE, BOOLEAN.
C5_MapperTotalTextFallback ==
    op = "map" =>
        /\ retType \in LocalTypes(variant)
        /\ Unrecognised(argType) => retType = TextType(variant)

C5_Witness ==
    /\ op = "map"
    /\ argType = <<"D", "A", "T", "x">>
    /\ retType = TextType(variant)

\* C6: "NUMBER(10,2)" maps to the floating-point type and "NUMBER(10,0)" to
\* the integer type.
C6_ScaleZeroIsInteger ==
    op = "map" =>
        /\ argType = T_NUMBER_10_2 => retType \in {"REAL", "DOUBLE"}
        /\ argType = T_NUMBER_10_0 => retType \in {"INTEGER", "BIGINT"}

\* C7: convert_value(None, type) is None for every type, and convert_data
\* keeps the number of rows and every None cell at its row and column.
C7_NullPropagation ==
    /\ (op = "convert_value" /\ argValue = None) => retValue = None
    /\ op = "convert_data" =>
        /\ Len(converted) = Len(data)
        /\ \A r \in DOMAIN data : \A c \in DOMAIN data[r] :
              data[r][c] = None =>
                  (c \in DOMAIN converted[r] /\ converted[r][c] = None)

C7_Witness ==
    /\ op = "convert_data"
    /\ Len(schema) = 2
    /\ Len(data) = 2
    /\ data[1][1] # None
    /\ data[2][2] = None
    /\ converted[2][2] = None

\* C8: for the types "TIMESTAMP", "TIMESTAMP_NTZ" and "DATE", a string that
\* is not ISO-8601 converts to None.
C8_MalformedTemporalIsNull ==
    (/\ op = "convert_value"
     /\ Upper(argType) \in {kwTIMESTAMP, kwTIMESTAMP_NTZ, kwDATE}
     /\ argValue.k = "str"
     /\ FromIsoFormat(argValue) = ValueError) => retValue = None

\* C9: a whole number in a "NUMBER(38,0)" column of the SQLite script is
\* declared TEXT or INTEGER and is read back as the number it was.
C9_Number38RoundTrips ==
    (op = "store" /\ Upper(argType) = kwNUMBER_38_0) =>
        /\ retType \in {"TEXT", "INTEGER"}
        /\ IsNumber(retValue, argValue.d)
====
